---------------------------- MODULE Spec2Model ----------------------------
(***************************************************************************)
(* Sharp.AI: the Gemini service layer (src/services/geminiService.ts) and  *)
(* the Style Playground component (src/components/StylePlayground.tsx).    *)
(*                                                                         *)
(* JavaScript strings are TLA+ strings; `undefined` fields are modelled by *)
(* a presence flag next to the field.                                      *)
(***************************************************************************)
EXTENDS Integers, Sequences, FiniteSets, TLC

VARIABLES
    \* ---- one invocation of a function of geminiService.ts ----
    svcFn,          \* which function was invoked: "none", "analyzeFace", "generateLookPreview"
    svcPc,          \* "idle", "awaiting" (suspended at the await), "returned", "threw"
    svcHeader,      \* the data-URL header of the image argument ("" when it has none)
    svcPayload,     \* the base64 payload of the image argument
    svcMode,        \* the AnalysisMode argument
    svcRequest,     \* the last request handed to ai.models.generateContent
    svcRequests,    \* how many requests this invocation has handed to the provider
    svcResponse,    \* what the provider answered (analysis call)
    svcImgResponse, \* what the provider answered (image call)
    svcOutcome,     \* what the invocation returned or threw
    \* ---- one mounted StylePlayground ----
    hairstyles,          \* prop: the names of the recommended hairstyles, in order
    facialHair,          \* prop: the names of the recommended facial-hair styles
    originalImageBase64, \* prop: the uploaded image
    viewMode,            \* 'recommended' | 'explore'
    selectedHair,        \* string | null
    selectedBeard,       \* string | null
    isGenerating,
    generatedImage,      \* string | null
    error,               \* string | null
    sliderPosition,
    containerWidth,
    pending,             \* the generateLookPreview calls handleVisualize is awaiting
    lastOutcome,         \* history: what the call that settled last returned or threw
    sliderAtSettle       \* history: the slider position when that call settled

svcVars == <<svcFn, svcPc, svcHeader, svcPayload, svcMode, svcRequest,
             svcRequests, svcResponse, svcImgResponse, svcOutcome>>

pgProps == <<hairstyles, facialHair, originalImageBase64>>
pgState == <<viewMode, selectedHair, selectedBeard, isGenerating, generatedImage,
             error, sliderPosition, containerWidth>>
pgVars == <<pgProps, pgState, pending, lastOutcome, sliderAtSettle>>

vars == <<svcVars, pgVars>>

-----------------------------------------------------------------------------
(* Bounds of the model                                                     *)

MaxTextLen == 4       \* longest response text the provider returns
MaxParts == 3         \* most content parts in the first candidate
MaxCandidates == 2    \* most candidates in a response
MaxPending == 2       \* most preview calls the model lets be outstanding at once

-----------------------------------------------------------------------------
(* String helpers (String.prototype.split and friends)                     *)

RECURSIVE IndexOfFrom(_, _, _)
\* the least i >= from with s[i] = ch, or 0 when there is none
IndexOfFrom(s, ch, from) ==
    IF from > Len(s) THEN 0
    ELSE IF SubSeq(s, from, from) = ch THEN from
    ELSE IndexOfFrom(s, ch, from + 1)

RECURSIVE split(_, _)
\* s.split(sep) for a one-character separator: the pieces between the separators
split(s, sep) ==
    LET i == IndexOfFrom(s, sep, 1)
    IN  IF i = 0 THEN <<s>>
        ELSE <<SubSeq(s, 1, i - 1)>> \o split(SubSeq(s, i + 1, Len(s)), sep)

RECURSIVE StringsUpTo(_, _)
\* all strings over `alphabet` of length at most n
StringsUpTo(alphabet, n) ==
    IF n = 0 THEN {""}
    ELSE LET S == StringsUpTo(alphabet, n - 1)
         IN  S \cup {s \o c : s \in S, c \in alphabet}

RECURSIVE SeqsUpTo(_, _)
\* all sequences over S of length at most n
SeqsUpTo(S, n) ==
    IF n = 0 THEN {<<>>}
    ELSE LET T == SeqsUpTo(S, n - 1)
         IN  T \cup {Append(t, x) : t \in T, x \in S}

-----------------------------------------------------------------------------
(* types.ts                                                                *)

AnalysisMode == {"COMPLETE", "HAIRSTYLE_ONLY", "FACIAL_HAIR_ONLY"}

-----------------------------------------------------------------------------
(* geminiService.ts: header stripping                                      *)

\* base64Image.split(',')[1] || base64Image
\* ([1] is undefined when there is no comma; undefined and "" are both falsy)
cleanBase64(base64Image) ==
    LET pieces == split(base64Image, ",")
    IN  IF Len(pieces) >= 2 /\ pieces[2] # "" THEN pieces[2] ELSE base64Image

\* the image arguments the callers pass: a FileReader data URL or a bare payload
Headers == {"", "data:image/jpeg;base64,", "data:image/png;base64,"}
Payloads == {"", "QUJD", "/9j/4AAQ+w=="}


-----------------------------------------------------------------------------
(* geminiService.ts: analyzeFace                                           *)

BASE_SYSTEM_INSTRUCTION ==
    "You are an expert professional stylist and barber with deep knowledge of face shapes, aesthetics, and grooming."

\* the if / else-if / else on the mode
modeInstruction(mode) ==
    IF mode = "HAIRSTYLE_ONLY"
    THEN "FOCUS ONLY ON HAIRSTYLES. Return an empty array for 'facialHair'. Populate 'hairstyles' with 4-5 options. Populate 'combinations' with 3 distinct hairstyle-only transformations (leave facialHair as empty string in combinations)."
    ELSE IF mode = "FACIAL_HAIR_ONLY"
    THEN "FOCUS ONLY ON FACIAL HAIR. Return an empty array for 'hairstyles'. Populate 'facialHair' with 4-5 options. Populate 'combinations' with 3 distinct facial-hair-only transformations (leave hairstyle as empty string in combinations)."
    ELSE "Recommend 3-4 specific hairstyles, 3-4 specific facial hair styles, and 3 distinct 'Look Combinations' pairing them together."

fullSystemInstruction(mode) ==
    BASE_SYSTEM_INSTRUCTION \o "\n\nCURRENT MODE: " \o modeInstruction(mode)

NoRequest == [model |-> "", mimeType |-> "", data |-> "", text |-> "", systemInstruction |-> ""]

\* the argument of ai.models.generateContent in analyzeFace
AnalyzeRequest(base64Image, mode) ==
    [model |-> "gemini-2.5-flash",
     mimeType |-> "image/jpeg",
     data |-> cleanBase64(base64Image),
     text |-> "Analyze this face and recommend styles based on the mode provided in system instructions.",
     systemInstruction |-> fullSystemInstruction(mode)]

(* The provider's structured text.  The text is a string over a four-letter *)
(* alphabet standing for JSON: "{" items "}" is an object whose items are   *)
(* hairstyle entries (H) and facial-hair entries (F); everything else is    *)
(* not JSON.                                                                *)
TextAlphabet == {"{", "}", "H", "F"}
Texts == StringsUpTo(TextAlphabet, MaxTextLen)

RECURSIVE OnlyItems(_)
OnlyItems(s) ==
    IF s = "" THEN TRUE
    ELSE SubSeq(s, 1, 1) \in {"H", "F"} /\ OnlyItems(SubSeq(s, 2, Len(s)))

RECURSIVE ItemsOf(_, _)
\* the entries of kind k in s, in order, as a list of recommendations
ItemsOf(s, k) ==
    IF s = "" THEN <<>>
    ELSE (IF SubSeq(s, 1, 1) = k THEN <<[name |-> k]>> ELSE <<>>)
         \o ItemsOf(SubSeq(s, 2, Len(s)), k)

EmptyResult == [hairstyles |-> <<>>, facialHair |-> <<>>]

\* JSON.parse: the parsed value, or a SyntaxError
JSONparse(text) ==
    IF /\ Len(text) >= 2
       /\ SubSeq(text, 1, 1) = "{"
       /\ SubSeq(text, Len(text), Len(text)) = "}"
       /\ OnlyItems(SubSeq(text, 2, Len(text) - 1))
    THEN [ok |-> TRUE,
          value |-> [hairstyles |-> ItemsOf(SubSeq(text, 2, Len(text) - 1), "H"),
                     facialHair |-> ItemsOf(SubSeq(text, 2, Len(text) - 1), "F")]]
    ELSE [ok |-> FALSE, value |-> EmptyResult]

\* what the provider can answer to the analysis call: a rejection with an
\* error, or a response whose text is absent or one of Texts
ProviderErrors == {"ApiError: 503", "TypeError: Failed to fetch"}
AnalysisResponses ==
    {[rejected |-> TRUE, error |-> e, hasText |-> FALSE, text |-> ""] : e \in ProviderErrors}
    \cup {[rejected |-> FALSE, error |-> "", hasText |-> FALSE, text |-> ""]}
    \cup {[rejected |-> FALSE, error |-> "", hasText |-> TRUE, text |-> t] : t \in Texts}
NoResponse == [rejected |-> FALSE, error |-> "", hasText |-> FALSE, text |-> ""]

NoOutcome == [threw |-> FALSE, error |-> "", result |-> EmptyResult, uri |-> ""]
Returned(result, uri) == [threw |-> FALSE, error |-> "", result |-> result, uri |-> uri]
Threw(err) == [threw |-> TRUE, error |-> err, result |-> EmptyResult, uri |-> ""]

\* faulty variant: post-filters the parsed lists by the requested mode
analyzeFaceOutcome_Filtered(response, mode) ==
    IF response.rejected THEN Threw(response.error)
    ELSE IF response.hasText /\ response.text # ""
    THEN IF JSONparse(response.text).ok
         THEN LET r == JSONparse(response.text).value
              IN  Returned([hairstyles |-> IF mode = "FACIAL_HAIR_ONLY" THEN <<>> ELSE r.hairstyles,
                            facialHair |-> IF mode = "HAIRSTYLE_ONLY" THEN <<>> ELSE r.facialHair], "")
         ELSE Threw("SyntaxError")
    ELSE Threw("No response text received from Gemini.")

\* faulty variant: an absent text yields an empty result instead of an error
analyzeFaceOutcome_Partial(response, mode) ==
    IF response.rejected THEN Threw(response.error)
    ELSE IF response.hasText /\ response.text # ""
    THEN IF JSONparse(response.text).ok
         THEN Returned(JSONparse(response.text).value, "")
         ELSE Threw("SyntaxError")
    ELSE Returned(EmptyResult, "")

\* analyzeFace after the await: the try body's if/else and the catch's rethrow
analyzeFaceOutcome(response, mode) ==
    IF response.rejected THEN Threw(response.error)
    ELSE IF response.hasText /\ response.text # ""
    THEN IF JSONparse(response.text).ok
         THEN Returned(JSONparse(response.text).value, "")
         ELSE Threw("SyntaxError")
    ELSE Threw("No response text received from Gemini.")

\* analyzeFace up to the await: strips the header, builds the instruction, sends
CallAnalyzeFace ==
    /\ svcPc = "idle"
    /\ svcFn' = "analyzeFace"
    /\ svcRequest' = AnalyzeRequest(svcHeader \o svcPayload, svcMode)
    /\ svcRequests' = svcRequests + 1
    /\ svcPc' = "awaiting"
    /\ UNCHANGED <<svcHeader, svcPayload, svcMode, svcResponse, svcImgResponse, svcOutcome>>
    /\ UNCHANGED pgVars

\* the provider settles the request and analyzeFace runs to its end
AnalyzeFaceSettles ==
    /\ svcPc = "awaiting"
    /\ svcFn = "analyzeFace"
    /\ \E response \in AnalysisResponses :
          /\ svcResponse' = response
          /\ svcOutcome' = analyzeFaceOutcome(response, svcMode)
          /\ svcPc' = IF analyzeFaceOutcome(response, svcMode).threw THEN "threw" ELSE "returned"
    /\ UNCHANGED <<svcFn, svcHeader, svcPayload, svcMode, svcRequest, svcRequests, svcImgResponse>>
    /\ UNCHANGED pgVars

-----------------------------------------------------------------------------
(* geminiService.ts: generateLookPreview                                   *)

\* the argument of ai.models.generateContent in generateLookPreview
PreviewRequest(originalBase64, combinationDescription) ==
    [model |-> "gemini-2.5-flash-image",
     mimeType |-> "image/jpeg",
     data |-> cleanBase64(originalBase64),
     text |-> "Edit this image to show the person with the following style: "
              \o combinationDescription \o ". ",
     systemInstruction |-> ""]

(* A response of the image model.  A part is a text part (no inlineData) or *)
(* carries inlineData whose data may be empty; a candidate may lack its     *)
(* content, and a content its parts; a response may lack its candidates.    *)
ImageData == {"iVBORw0KGgo=", "R0lGODlh"}
TextPart == [hasInlineData |-> FALSE, data |-> ""]
InlinePart(d) == [hasInlineData |-> TRUE, data |-> d]
Parts == {TextPart} \cup {InlinePart(d) : d \in ImageData \cup {""}}

Candidate(hasContent, hasParts, parts) ==
    [hasContent |-> hasContent, hasParts |-> hasParts, parts |-> parts]
FirstCandidates ==
    {Candidate(FALSE, FALSE, <<>>), Candidate(TRUE, FALSE, <<>>)}
    \cup {Candidate(TRUE, TRUE, ps) : ps \in SeqsUpTo(Parts, MaxParts)}
\* the candidates after the first
OtherCandidates ==
    {Candidate(FALSE, FALSE, <<>>), Candidate(TRUE, TRUE, <<InlinePart("R0lGODlh")>>)}

ImageResponse(rejected, err, hasCandidates, candidates) ==
    [rejected |-> rejected, error |-> err,
     hasCandidates |-> hasCandidates, candidates |-> candidates]
ImageResponses ==
    {ImageResponse(TRUE, e, FALSE, <<>>) : e \in ProviderErrors}
    \cup {ImageResponse(FALSE, "", FALSE, <<>>), ImageResponse(FALSE, "", TRUE, <<>>)}
    \cup {ImageResponse(FALSE, "", TRUE, <<c>> \o rest) :
             c \in FirstCandidates, rest \in SeqsUpTo(OtherCandidates, MaxCandidates - 1)}
NoImageResponse == ImageResponse(FALSE, "", FALSE, <<>>)

RECURSIVE FirstInline(_, _)
\* the for loop: the index of the first part from i on whose inlineData and
\* inlineData.data are both truthy, or 0 when the loop runs off the end
FirstInline(parts, i) ==
    IF i > Len(parts) THEN 0
    ELSE IF parts[i].hasInlineData /\ parts[i].data # "" THEN i
    ELSE FirstInline(parts, i + 1)

RECURSIVE LastInline(_, _)
LastInline(parts, i) ==
    IF i < 1 THEN 0
    ELSE IF parts[i].hasInlineData /\ parts[i].data # "" THEN i
    ELSE LastInline(parts, i - 1)

\* faulty variant: the loop keeps the last inline part instead of returning at the first
generateLookPreviewOutcome_Last(response) ==
    IF response.rejected THEN Threw(response.error)
    ELSE IF ~response.hasCandidates THEN Threw("No image generated.")
    ELSE IF Len(response.candidates) = 0 THEN Threw("TypeError")
    ELSE IF ~response.candidates[1].hasContent THEN Threw("TypeError")
    ELSE IF ~response.candidates[1].hasParts THEN Threw("No image generated.")
    ELSE LET parts == response.candidates[1].parts
             i == LastInline(parts, Len(parts))
         IN  IF i > 0
             THEN Returned(EmptyResult, "data:image/png;base64," \o parts[i].data)
             ELSE Threw("No image generated.")

(* generateLookPreview after the await.  `response.candidates &&` guards   *)
(* only an absent list: candidates[0] of an empty list is undefined and a   *)
(* candidate may have no content, and reading a property of undefined is a  *)
(* TypeError, which the catch logs and rethrows.                            *)
generateLookPreviewOutcome(response) ==
    IF response.rejected THEN Threw(response.error)
    ELSE IF ~response.hasCandidates THEN Threw("No image generated.")
    ELSE IF Len(response.candidates) = 0 THEN Threw("TypeError")
    ELSE IF ~response.candidates[1].hasContent THEN Threw("TypeError")
    ELSE IF ~response.candidates[1].hasParts THEN Threw("No image generated.")
    ELSE LET parts == response.candidates[1].parts
             i == FirstInline(parts, 1)
         IN  IF i > 0
             THEN Returned(EmptyResult, "data:image/png;base64," \o parts[i].data)
             ELSE Threw("No image generated.")

\* the description the service spec passes (the playground builds its own)
SampleDescription == "Hairstyle: Quiff. Facial Hair: Full Beard. Create a cohesive look."

\* generateLookPreview up to the await
CallGenerateLookPreview ==
    /\ svcPc = "idle"
    /\ svcFn' = "generateLookPreview"
    /\ svcRequest' = PreviewRequest(svcHeader \o svcPayload, SampleDescription)
    /\ svcRequests' = svcRequests + 1
    /\ svcPc' = "awaiting"
    /\ UNCHANGED <<svcHeader, svcPayload, svcMode, svcResponse, svcImgResponse, svcOutcome>>
    /\ UNCHANGED pgVars

\* the provider settles the request and generateLookPreview runs to its end
GenerateLookPreviewSettles ==
    /\ svcPc = "awaiting"
    /\ svcFn = "generateLookPreview"
    /\ \E response \in ImageResponses :
          /\ svcImgResponse' = response
          /\ svcOutcome' = generateLookPreviewOutcome(response)
          /\ svcPc' = IF generateLookPreviewOutcome(response).threw THEN "threw" ELSE "returned"
    /\ UNCHANGED <<svcFn, svcHeader, svcPayload, svcMode, svcRequest, svcRequests, svcResponse>>
    /\ UNCHANGED pgVars

-----------------------------------------------------------------------------
(* StylePlayground.tsx: values                                             *)

\* string | null: null is the empty tuple, a string s is <<s>>
Null == <<>>
Some(x) == <<x>>
\* JavaScript truthiness of a string | null: neither null nor ""
Truthy(v) == v # Null /\ v[1] # ""

RECURSIVE Contains(_, _, _)
\* s.includes(sub), searching from index i
Contains(s, sub, i) ==
    IF i + Len(sub) - 1 > Len(s) THEN FALSE
    ELSE IF SubSeq(s, i, i + Len(sub) - 1) = sub THEN TRUE
    ELSE Contains(s, sub, i + 1)
Includes(s, sub) == Contains(s, sub, 1)

\* the elements of a sequence
Range(seq) == {seq[i] : i \in 1..Len(seq)}

ALL_HAIRSTYLES ==
    <<"Afro", "Braids / Cornrows", "Buzz Cut", "Caesar Cut", "Crew Cut",
      "Curly Hair", "Dreadlocks", "Fade", "Fringe / Bangs", "Long Wavy Flow",
      "Man Bun", "Pompadour", "Quiff", "Side Part", "Slick Back",
      "Spiky / Faux Hawk", "Textured Crop", "Undercut">>

ALL_FACIAL_HAIR ==
    <<"Anchor Beard", "Balbo", "Chin Strap", "Clean Shaven", "Full Beard",
      "Goatee", "Heavy Stubble", "Mutton Chops", "Chevron Mustache",
      "Short Boxed Beard", "Prominent Sideburns", "Van Dyke">>

\* the catalog buttons the modelled user clicks in the explore view
ExploreHairClicked == {"Fade", "Pompadour"}
ExploreBeardClicked == {"Goatee", "Full Beard"}

\* the props the parent passes: the names of an analysis result (an empty list
\* under a single-axis mode; names the catalog lacks; a name left empty)
HairstyleProps == {<<>>, <<"Pompadour", "Wolf Cut">>, <<"Fade", "">>}
FacialHairProps == {<<>>, <<"Goatee", "Soul Patch">>}
ImageProps == {"data:image/jpeg;base64,/9j/4AAQ+w==", "/9j/4AAQ+w=="}

\* what the image model answers to the playground's calls
PlaygroundResponses ==
    {ImageResponse(TRUE, "TypeError: Failed to fetch", FALSE, <<>>),
     ImageResponse(FALSE, "", FALSE, <<>>),
     ImageResponse(FALSE, "", TRUE, <<>>),
     ImageResponse(FALSE, "", TRUE, <<Candidate(TRUE, TRUE, <<TextPart>>)>>),
     ImageResponse(FALSE, "", TRUE, <<Candidate(TRUE, TRUE, <<TextPart, InlinePart("iVBORw0KGgo=")>>)>>),
     ImageResponse(FALSE, "", TRUE, <<Candidate(TRUE, TRUE, <<InlinePart("R0lGODlh")>>)>>)}

\* containerRef.current.offsetWidth, as measured
Widths == {320, 640}
\* where the user drags the range input
SliderDrags == {-20, 30, 130}

-----------------------------------------------------------------------------
(* StylePlayground.tsx: derived values of a render                         *)

displayHairstyles ==
    IF viewMode = "recommended" THEN Range(hairstyles)
    ELSE Range(ALL_HAIRSTYLES) \cap ExploreHairClicked

displayFacialHair ==
    IF viewMode = "recommended" THEN Range(facialHair)
    ELSE Range(ALL_FACIAL_HAIR) \cap ExploreBeardClicked

\* faulty variant: the hair fragment is built whenever the selection is not null
hairPart_NonNull(selected) ==
    IF selected # Null THEN "Hairstyle: " \o selected[1] ELSE ""

hairPart(selected) ==
    IF Truthy(selected) THEN "Hairstyle: " \o selected[1] ELSE ""

beardPart(selected) ==
    IF Truthy(selected) THEN "Facial Hair: " \o selected[1] ELSE ""

description(hair, beard) ==
    hair \o ". " \o beard \o ". Create a cohesive look."

\* the action button is rendered: {!generatedImage && ...}
VisualizeRendered == ~Truthy(generatedImage)

\* faulty variant: the button is not disabled while a generation is pending
VisualizeDisabled_IgnoresGenerating ==
    ~Truthy(selectedHair) /\ ~Truthy(selectedBeard)

\* disabled={isGenerating || (!selectedHair && !selectedBeard)}
VisualizeDisabled ==
    isGenerating \/ (~Truthy(selectedHair) /\ ~Truthy(selectedBeard))

\* the result panel with its slider and both reset buttons: {generatedImage && ...}
ResultRendered == Truthy(generatedImage)

\* the value of <input type="range" min="0" max="100">: kept within min and max
RangeValue(raw) ==
    IF raw < 0 THEN 0 ELSE IF raw > 100 THEN 100 ELSE raw

-----------------------------------------------------------------------------
(* StylePlayground.tsx: handlers                                           *)

\* faulty variant: a click always selects, it never clears
toggle_AlwaysSelects(name, selected) == Some(name)

\* name === selected ? null : name, the argument of both selection setters
toggle(name, selected) ==
    IF Some(name) = selected THEN Null ELSE Some(name)

\* faulty variant: a change of view drops the selections
SetViewMode_DropsSelections(mode) ==
    /\ viewMode' = mode
    /\ selectedHair' = IF mode = viewMode THEN selectedHair ELSE Null
    /\ selectedBeard' = IF mode = viewMode THEN selectedBeard ELSE Null
    /\ UNCHANGED <<isGenerating, generatedImage, error, sliderPosition, containerWidth>>
    /\ UNCHANGED <<pgProps, pending, lastOutcome, sliderAtSettle, svcVars>>

\* onClick={() => setViewMode(...)} of the two view buttons
SetViewMode(mode) ==
    /\ viewMode' = mode
    /\ UNCHANGED <<selectedHair, selectedBeard, isGenerating, generatedImage,
                   error, sliderPosition, containerWidth>>
    /\ UNCHANGED <<pgProps, pending, lastOutcome, sliderAtSettle, svcVars>>

\* onClick of a hairstyle button
ToggleHair(name) ==
    /\ name \in displayHairstyles
    /\ selectedHair' = toggle(name, selectedHair)
    /\ UNCHANGED <<viewMode, selectedBeard, isGenerating, generatedImage,
                   error, sliderPosition, containerWidth>>
    /\ UNCHANGED <<pgProps, pending, lastOutcome, sliderAtSettle, svcVars>>

\* onClick of a facial-hair button
ToggleBeard(name) ==
    /\ name \in displayFacialHair
    /\ selectedBeard' = toggle(name, selectedBeard)
    /\ UNCHANGED <<viewMode, selectedHair, isGenerating, generatedImage,
                   error, sliderPosition, containerWidth>>
    /\ UNCHANGED <<pgProps, pending, lastOutcome, sliderAtSettle, svcVars>>

\* a click on the action button runs handleVisualize up to its await
handleVisualize ==
    /\ VisualizeRendered
    /\ ~VisualizeDisabled
    /\ Len(pending) < MaxPending
    /\ IF hairPart(selectedHair) = "" /\ beardPart(selectedBeard) = ""
       THEN UNCHANGED <<isGenerating, error, pending>>
       ELSE /\ isGenerating' = TRUE
            /\ error' = Null
            /\ pending' = Append(pending,
                   [description |-> description(hairPart(selectedHair), beardPart(selectedBeard)),
                    request |-> PreviewRequest(originalImageBase64,
                                   description(hairPart(selectedHair), beardPart(selectedBeard)))])
    /\ UNCHANGED <<viewMode, selectedHair, selectedBeard, generatedImage,
                   sliderPosition, containerWidth>>
    /\ UNCHANGED <<pgProps, lastOutcome, sliderAtSettle, svcVars>>

\* faulty variant: a failure leaves the generating flag set
handleVisualizeResumes_StaysGenerating(outcome, width) ==
    /\ IF outcome.threw
       THEN /\ error' = Some("Could not generate preview. Please try again.")
            /\ isGenerating' = TRUE
            /\ UNCHANGED <<generatedImage, sliderPosition, containerWidth>>
       ELSE /\ generatedImage' = Some(outcome.uri)
            /\ sliderPosition' = 50
            /\ isGenerating' = FALSE
            /\ containerWidth' = IF Some(outcome.uri) # generatedImage THEN width ELSE containerWidth
            /\ UNCHANGED error

\* faulty variant: a returned image is stored without recentring the slider
handleVisualizeResumes_KeepsSlider(outcome, width) ==
    /\ IF outcome.threw
       THEN /\ error' = Some("Could not generate preview. Please try again.")
            /\ UNCHANGED <<generatedImage, sliderPosition, containerWidth>>
       ELSE /\ generatedImage' = Some(outcome.uri)
            /\ UNCHANGED sliderPosition
            /\ containerWidth' = IF Some(outcome.uri) # generatedImage THEN width ELSE containerWidth
            /\ UNCHANGED error
    /\ isGenerating' = FALSE

(* handleVisualize from its await on: the try's two setters or the catch's  *)
(* setError, then the finally; and, the generated image having changed, the *)
(* effect that measures the container (the result panel is mounted by then).*)
handleVisualizeResumes(outcome, width) ==
    /\ IF outcome.threw
       THEN /\ error' = Some("Could not generate preview. Please try again.")
            /\ UNCHANGED <<generatedImage, sliderPosition, containerWidth>>
       ELSE /\ generatedImage' = Some(outcome.uri)
            /\ sliderPosition' = 50
            /\ containerWidth' = IF Some(outcome.uri) # generatedImage THEN width ELSE containerWidth
            /\ UNCHANGED error
    /\ isGenerating' = FALSE

\* the provider settles one of the awaited calls; generateLookPreview and then
\* handleVisualize run to their ends
VisualizeSettles ==
    /\ \E i \in 1..Len(pending), response \in PlaygroundResponses, width \in Widths :
          /\ pending' = SubSeq(pending, 1, i - 1) \o SubSeq(pending, i + 1, Len(pending))
          /\ lastOutcome' = generateLookPreviewOutcome(response)
          /\ sliderAtSettle' = sliderPosition
          /\ handleVisualizeResumes(generateLookPreviewOutcome(response), width)
    /\ UNCHANGED <<viewMode, selectedHair, selectedBeard>>
    /\ UNCHANGED <<pgProps, svcVars>>

\* the ResizeObserver the effect registered calls updateWidth
updateWidth ==
    /\ ResultRendered
    /\ \E width \in Widths : containerWidth' = width
    /\ UNCHANGED <<viewMode, selectedHair, selectedBeard, isGenerating, generatedImage,
                   error, sliderPosition>>
    /\ UNCHANGED <<pgProps, pending, lastOutcome, sliderAtSettle, svcVars>>

\* onChange of the range input
handleSliderChange ==
    /\ ResultRendered
    /\ \E raw \in SliderDrags : sliderPosition' = RangeValue(raw)
    /\ UNCHANGED <<viewMode, selectedHair, selectedBeard, isGenerating, generatedImage,
                   error, containerWidth>>
    /\ UNCHANGED <<pgProps, pending, lastOutcome, sliderAtSettle, svcVars>>

\* faulty variant: the reset also recentres the slider
handleReset_Recentres ==
    /\ ResultRendered
    /\ generatedImage' = Null
    /\ error' = Null
    /\ containerWidth' = 0
    /\ sliderPosition' = 50
    /\ UNCHANGED <<viewMode, selectedHair, selectedBeard, isGenerating>>
    /\ UNCHANGED <<pgProps, pending, lastOutcome, sliderAtSettle, svcVars>>

\* onClick of "Create Another" and of "Reset", both inside the result panel;
\* the effect's cleanup disconnects the observer and the effect returns early
handleReset ==
    /\ ResultRendered
    /\ generatedImage' = Null
    /\ error' = Null
    /\ containerWidth' = 0
    /\ UNCHANGED <<viewMode, selectedHair, selectedBeard, isGenerating, sliderPosition>>
    /\ UNCHANGED <<pgProps, pending, lastOutcome, sliderAtSettle, svcVars>>

-----------------------------------------------------------------------------
(* Specifications                                                          *)

\* the component's state after its first render
PlaygroundMounted ==
    /\ viewMode = "recommended"
    /\ selectedHair = Null
    /\ selectedBeard = Null
    /\ isGenerating = FALSE
    /\ generatedImage = Null
    /\ error = Null
    /\ sliderPosition = 50
    /\ containerWidth = 0
    /\ pending = <<>>
    /\ lastOutcome = NoOutcome
    /\ sliderAtSettle = 50

\* the service layer before any invocation
ServiceIdle ==
    /\ svcFn = "none"
    /\ svcPc = "idle"
    /\ svcHeader = ""
    /\ svcPayload = ""
    /\ svcMode = "COMPLETE"
    /\ svcRequest = NoRequest
    /\ svcRequests = 0
    /\ svcResponse = NoResponse
    /\ svcImgResponse = NoImageResponse
    /\ svcOutcome = NoOutcome

\* one invocation of a service function on arguments drawn here
ServiceInit ==
    /\ svcFn = "none"
    /\ svcPc = "idle"
    /\ svcHeader \in Headers
    /\ svcPayload \in Payloads
    /\ svcMode \in AnalysisMode
    /\ svcRequest = NoRequest
    /\ svcRequests = 0
    /\ svcResponse = NoResponse
    /\ svcImgResponse = NoImageResponse
    /\ svcOutcome = NoOutcome
    /\ PlaygroundMounted
    /\ hairstyles = <<>>
    /\ facialHair = <<>>
    /\ originalImageBase64 = ""

ServiceNext ==
    \/ CallAnalyzeFace
    \/ AnalyzeFaceSettles
    \/ CallGenerateLookPreview
    \/ GenerateLookPreviewSettles

ServiceSpec == ServiceInit /\ [][ServiceNext]_vars


\* one mounted playground with props drawn here
Init ==
    /\ ServiceIdle
    /\ PlaygroundMounted
    /\ hairstyles \in HairstyleProps
    /\ facialHair \in FacialHairProps
    /\ originalImageBase64 \in ImageProps

Next ==
    \/ \E mode \in {"recommended", "explore"} : SetViewMode(mode)
    \/ \E name \in displayHairstyles : ToggleHair(name)
    \/ \E name \in displayFacialHair : ToggleBeard(name)
    \/ handleVisualize
    \/ VisualizeSettles
    \/ updateWidth
    \/ handleSliderChange
    \/ handleReset

Spec == Init /\ [][Next]_vars

-----------------------------------------------------------------------------
(* Properties of the service layer (checked under ServiceSpec)             *)

PreviewSettled ==
    svcFn = "generateLookPreview" /\ svcPc \in {"returned", "threw"} /\ ~svcImgResponse.rejected
AnalyzeSettled ==
    svcFn = "analyzeFace" /\ svcPc \in {"returned", "threw"}

\* a part carries inline image bytes
HasBytes(part) == part.hasInlineData /\ part.data # ""
\* the parts of candidate c that exist
PartsOf(c) == IF c.hasContent /\ c.hasParts THEN c.parts ELSE <<>>
\* no part of any candidate of the response carries inline image bytes
NoInlineBytes(response) ==
    \A k \in 1..Len(response.candidates) :
        \A i \in 1..Len(PartsOf(response.candidates[k])) :
            ~HasBytes(PartsOf(response.candidates[k])[i])

\* C1: generateLookPreview fails with the "No image generated." error on every
\* provider response that has no content part carrying inline image bytes (no
\* candidates, a first candidate without parts, only parts without inline data).
C1_NoImageError ==
    (PreviewSettled /\ NoInlineBytes(svcImgResponse))
        => (svcOutcome.threw /\ svcOutcome.error = "No image generated.")

\* C1, the part the code keeps: on such a response the call never returns a value.
C1_NeverReturns ==
    (PreviewSettled /\ NoInlineBytes(svcImgResponse)) => svcOutcome.threw

\* the first candidate's parts hold a part with inline image bytes
FirstCandidateHasBytes(response) ==
    /\ response.hasCandidates
    /\ Len(response.candidates) >= 1
    /\ \E i \in 1..Len(PartsOf(response.candidates[1])) :
          HasBytes(PartsOf(response.candidates[1])[i])
\* the least index of a part with inline image bytes
LeastBytes(parts) ==
    CHOOSE i \in 1..Len(parts) :
        HasBytes(parts[i]) /\ \A j \in 1..(i - 1) : ~HasBytes(parts[j])

\* C2: when the first candidate's parts hold a part with inline image bytes,
\* generateLookPreview returns "data:image/png;base64," followed by the data of
\* the first such part in list order; earlier parts without inline data are
\* skipped, later parts are ignored.
C2_FirstInlinePart ==
    (PreviewSettled /\ FirstCandidateHasBytes(svcImgResponse))
        => LET parts == svcImgResponse.candidates[1].parts
           IN  /\ svcPc = "returned"
               /\ ~svcOutcome.threw
               /\ svcOutcome.uri = "data:image/png;base64," \o parts[LeastBytes(parts)].data

\* C2 witness: the call returned although the first inline part is preceded by a
\* part without bytes and followed by a part with other bytes.
C2_Witness ==
    /\ PreviewSettled
    /\ svcPc = "returned"
    /\ LET parts == svcImgResponse.candidates[1].parts
       IN  /\ Len(parts) = 3
           /\ ~HasBytes(parts[1])
           /\ HasBytes(parts[2])
           /\ HasBytes(parts[3])
           /\ parts[3].data # parts[2].data
           /\ svcOutcome.uri = "data:image/png;base64," \o parts[2].data

\* C3: the image data transmitted for "data:<mime>;base64," + p is the data
\* transmitted for p alone, for every base64 payload p including the empty one,
\* and stripping the stripped string changes nothing.
C3_StripHeader ==
    svcPc # "idle"
        => /\ svcRequest.data = cleanBase64(svcPayload)
           /\ cleanBase64(svcRequest.data) = svcRequest.data

\* C3, the part the code keeps: non-empty payloads, and idempotence for all.
C3_StripNonEmpty ==
    svcPc # "idle"
        => /\ svcPayload # "" => svcRequest.data = svcPayload
           /\ cleanBase64(svcRequest.data) = svcRequest.data

\* C4: analyzeFace sends exactly one request per invocation and its outcome is
\* fixed by that single response: a response with text returns the parsed text
\* unchanged, a response without (or with empty) text fails with the "no
\* response" error, and an error thrown by the provider or by the parse reaches
\* the caller unchanged; never a second request, never a partial result.
C4_SingleRequestOutcome ==
    /\ (svcFn = "analyzeFace" /\ svcPc # "idle") => svcRequests = 1
    /\ AnalyzeSettled =>
         /\ svcResponse.rejected
              => (svcPc = "threw" /\ svcOutcome.threw /\ svcOutcome.error = svcResponse.error)
         /\ (~svcResponse.rejected /\ (~svcResponse.hasText \/ svcResponse.text = ""))
              => (svcPc = "threw" /\ svcOutcome.threw
                  /\ svcOutcome.error = "No response text received from Gemini.")
         /\ (~svcResponse.rejected /\ svcResponse.hasText /\ svcResponse.text # "")
              => IF JSONparse(svcResponse.text).ok
                 THEN /\ svcPc = "returned"
                      /\ ~svcOutcome.threw
                      /\ svcOutcome.result = JSONparse(svcResponse.text).value
                 ELSE /\ svcPc = "threw"
                      /\ svcOutcome.threw
                      /\ svcOutcome.error = "SyntaxError"

\* C4 witness: an invocation that returned the parsed lists of a response with
\* text, after one request.
C4_Witness ==
    /\ AnalyzeSettled
    /\ svcPc = "returned"
    /\ svcRequests = 1
    /\ svcResponse.text = "{HF}"
    /\ Len(svcOutcome.result.hairstyles) = 1
    /\ Len(svcOutcome.result.facialHair) = 1

\* the mode invariant of an AnalysisResult
ModeInvariant(result, mode) ==
    /\ mode = "FACIAL_HAIR_ONLY" => result.hairstyles = <<>>
    /\ mode = "HAIRSTYLE_ONLY" => result.facialHair = <<>>

\* C5 (as stated): every result analyzeFace returns satisfies the mode invariant,
\* whatever structured text the provider returned.
C5_ModeInvariant ==
    (svcFn = "analyzeFace" /\ svcPc = "returned")
        => ModeInvariant(svcOutcome.result, svcMode)

\* C5 (amended): the lists of the returned result are the lists of the
\* provider's text, unfiltered, so the result satisfies the mode invariant
\* exactly when the provider's text does.
C5_ResultFollowsProvider ==
    (svcFn = "analyzeFace" /\ svcPc = "returned")
        => /\ svcOutcome.result.hairstyles = JSONparse(svcResponse.text).value.hairstyles
           /\ svcOutcome.result.facialHair = JSONparse(svcResponse.text).value.facialHair
           /\ ModeInvariant(svcOutcome.result, svcMode)
                <=> ModeInvariant(JSONparse(svcResponse.text).value, svcMode)

\* C5 witness: a FacialHairOnly invocation returned a result with hairstyles.
C5_Witness ==
    /\ svcFn = "analyzeFace"
    /\ svcPc = "returned"
    /\ svcMode = "FACIAL_HAIR_ONLY"
    /\ svcOutcome.result.hairstyles # <<>>

-----------------------------------------------------------------------------
(* Properties of the Style Playground (checked under Spec)                 *)

\* the generation phase of section 4.3, read off the component's state
Phase ==
    IF isGenerating THEN "Generating"
    ELSE IF generatedImage # Null THEN "Done"
    ELSE IF error # Null THEN "Errored"
    ELSE "Idle"

FixedMessage == "Could not generate preview. Please try again."

\* a step that hands a description to the preview generator
SendStep == Len(pending') > Len(pending)
\* the description that step sent
Sent == pending'[Len(pending')].description
\* a step in which an awaited generation fails / returns an image
FailureStep == Len(pending') < Len(pending) /\ lastOutcome'.threw
SuccessStep == Len(pending') < Len(pending) /\ ~lastOutcome'.threw

C7_OneGenerationAtATime ==
    /\ Len(pending) <= 1
    /\ isGenerating <=> Len(pending) = 1

\* C7 witness: a generation is pending while the user has since changed the
\* selection to another one that could be visualized.
C7_Witness ==
    /\ isGenerating
    /\ Len(pending) = 1
    /\ Truthy(selectedHair)
    /\ pending[1].description # description(hairPart(selectedHair), beardPart(selectedBeard))

\* the action button can be clicked
VisualizeEnabled == VisualizeRendered /\ ~VisualizeDisabled

\* C8 (as stated): whenever a generation fails the generating flag returns to
\* false, the error becomes the fixed message, the generated image and both
\* selections are unchanged, and the visualize control is enabled again; a
\* retry clears the error when it starts.
C8_FailureReenables ==
    [][ /\ FailureStep
            => /\ ~isGenerating'
               /\ error' = Some(FixedMessage)
               /\ generatedImage' = generatedImage
               /\ selectedHair' = selectedHair /\ selectedBeard' = selectedBeard
               /\ VisualizeEnabled'
        /\ SendStep => error' = Null
      ]_vars

\* C8 (amended): as stated, except that the control is enabled again exactly
\* when a selection is still set at that moment; it is when the selection is
\* still the one the failed request was made with.
C8_FailureReenablesIfSelected ==
    [][ /\ FailureStep
            => /\ ~isGenerating'
               /\ error' = Some(FixedMessage)
               /\ generatedImage' = generatedImage
               /\ selectedHair' = selectedHair /\ selectedBeard' = selectedBeard
               /\ VisualizeEnabled' <=> (Truthy(selectedHair) \/ Truthy(selectedBeard))
               /\ (\E i \in 1..Len(pending) :
                      pending[i].description
                          = description(hairPart(selectedHair), beardPart(selectedBeard)))
                    => VisualizeEnabled'
        /\ SendStep => error' = Null
      ]_vars

\* C8 witness: a generation has failed after the user cleared both selections.
C8_Witness ==
    /\ Phase = "Errored"
    /\ lastOutcome.threw
    /\ error = Some(FixedMessage)
    /\ selectedHair = Null
    /\ selectedBeard = Null
    /\ ~VisualizeEnabled

\* C9: whenever a generation returns an image, the image is stored, the slider
\* position becomes 50 wherever it was, the error stays null and the generating
\* flag returns to false; the slider position is in [0,100] in every state.
C9_SuccessRecentresSlider ==
    /\ [][ SuccessStep
             => /\ generatedImage' = Some(lastOutcome'.uri)
                /\ sliderPosition' = 50
                /\ error = Null /\ error' = Null
                /\ ~isGenerating'
         ]_vars
    /\ [](sliderPosition \in 0..100)

\* C9 witness: an image was returned while the slider stood away from the
\* centre, and the slider is at 50.
C9_Witness ==
    /\ Phase = "Done"
    /\ ~lastOutcome.threw
    /\ generatedImage = Some(lastOutcome.uri)
    /\ sliderAtSettle # 50
    /\ sliderPosition = 50

\* the frame and effect of a reset step
ResetStep == generatedImage # Null /\ generatedImage' = Null
ResetEffect ==
    /\ Phase' = "Idle"
    /\ error' = Null
    /\ containerWidth' = 0
    /\ selectedHair' = selectedHair /\ selectedBeard' = selectedBeard
    /\ viewMode' = viewMode
    /\ sliderPosition' = sliderPosition

\* C10 (as stated): the reset transition can be taken from the Done phase and
\* from the Errored phase and leads to Idle with the generated image, the error
\* and the cached width cleared and the selections, view mode and slider kept.
C10_ResetFromDoneOrErrored ==
    /\ [](Phase \in {"Done", "Errored"} => ENABLED handleReset)
    /\ [][ResetStep => ResetEffect]_vars

\* C10 (amended): the reset transition can be taken from the Done phase and from
\* no other (the reset controls are rendered only with a generated image); it
\* leads to Idle with the same effect and frame.
C10_ResetFromDone ==
    /\ [](ENABLED handleReset <=> Phase = "Done")
    /\ [][ResetStep => ResetEffect]_vars

\* C10 witness: a reset was taken after an image was shown and the slider moved.
C10_Witness ==
    /\ Phase = "Idle"
    /\ ~lastOutcome.threw
    /\ lastOutcome.uri # ""
    /\ containerWidth = 0
    /\ sliderPosition = 30
    /\ selectedHair # Null

\* a step that changes the hairstyle / the facial-hair selection
HairStep == selectedHair' # selectedHair
BeardStep == selectedBeard' # selectedBeard
\* everything of the component but the two selections
BesidesSelections ==
    <<viewMode, isGenerating, generatedImage, error, sliderPosition, containerWidth,
      pgProps, pending>>

\* C11: catalog selection is a single-select toggle on each axis: a click on
\* name n sets the axis selection to null when n is the selection and to n
\* otherwise, so a second click on n in a row, starting from a selection other
\* than n, ends with null; a click on one axis never changes the other.
C11_SingleSelectToggle ==
    /\ [][ /\ HairStep
               => /\ \E n \in displayHairstyles :
                        selectedHair' = (IF selectedHair = Some(n) THEN Null ELSE Some(n))
                  /\ selectedBeard' = selectedBeard
                  /\ BesidesSelections' = BesidesSelections
           /\ BeardStep
               => /\ \E n \in displayFacialHair :
                        selectedBeard' = (IF selectedBeard = Some(n) THEN Null ELSE Some(n))
                  /\ selectedHair' = selectedHair
                  /\ BesidesSelections' = BesidesSelections
         ]_vars
    /\ [](\A n \in displayHairstyles :
             /\ ENABLED (ToggleHair(n) /\ selectedHair' = toggle(n, selectedHair))
             /\ selectedHair # Some(n)
                  => /\ toggle(n, selectedHair) = Some(n)
                     /\ toggle(n, toggle(n, selectedHair)) = Null)
    /\ [](\A n \in displayFacialHair :
             /\ ENABLED (ToggleBeard(n) /\ selectedBeard' = toggle(n, selectedBeard))
             /\ selectedBeard # Some(n)
                  => /\ toggle(n, selectedBeard) = Some(n)
                     /\ toggle(n, toggle(n, selectedBeard)) = Null)

\* C11 witness: "Pompadour" was selected when visualize was clicked and has been
\* cleared by a further click, while the facial-hair selection made is kept.
C11_Witness ==
    /\ Len(pending) = 1
    /\ Includes(pending[1].description, "Hairstyle: Pompadour")
    /\ Includes(pending[1].description, "Facial Hair: Goatee")
    /\ selectedHair = Null
    /\ selectedBeard = Some("Goatee")

\* a selection whose name the current view does not offer
Dangling(selected, offered) == Truthy(selected) /\ selected[1] \notin offered

\* C12: switching the view mode changes only the view mode (and with it the
\* names offered); selectedHair and selectedBeard are unchanged in every case,
\* also when the selected name is not offered by the new view, and such a
\* dangling selection is still used by a following visualize.
C12_ViewSwitchKeepsSelections ==
    [][ /\ viewMode' # viewMode
            => /\ selectedHair' = selectedHair
               /\ selectedBeard' = selectedBeard
               /\ <<isGenerating, generatedImage, error, sliderPosition, containerWidth,
                    pgProps, pending>>'
                    = <<isGenerating, generatedImage, error, sliderPosition, containerWidth,
                        pgProps, pending>>
               /\ displayHairstyles'
                    = (IF viewMode = "explore" THEN Range(hairstyles)
                       ELSE Range(ALL_HAIRSTYLES) \cap ExploreHairClicked)
               /\ displayFacialHair'
                    = (IF viewMode = "explore" THEN Range(facialHair)
                       ELSE Range(ALL_FACIAL_HAIR) \cap ExploreBeardClicked)
        /\ (SendStep /\ Dangling(selectedHair, displayHairstyles))
            => Includes(Sent, "Hairstyle: " \o selectedHair[1] \o ". ")
        /\ (SendStep /\ Dangling(selectedBeard, displayFacialHair))
            => Includes(Sent, "Facial Hair: " \o selectedBeard[1] \o ". ")
      ]_vars

\* C12 witness: "Wolf Cut", which the catalog lacks, is still selected in the
\* explore view, no catalog name was selected with it, and a visualize has sent it.
C12_Witness ==
    /\ viewMode = "explore"
    /\ selectedHair = Some("Wolf Cut")
    /\ Dangling(selectedHair, displayHairstyles)
    /\ selectedBeard = Null
    /\ Len(pending) = 1
    /\ pending[1].description = "Hairstyle: Wolf Cut. . Create a cohesive look."

=============================================================================
